---------------------------- MODULE Spec2Model ----------------------------
(***************************************************************************)
(* Model of src/main.py ("Wish", the Spella spell-book trading helper):    *)
(* the fee arithmetic, the in-memory WishSpellStore, the address check,    *)
(* the price-taking CLI commands and load_config.                          *)
(*                                                                         *)
(* Strings whose characters matter (addresses, numeric arguments) are      *)
(* sequences of one-character strings.  A Python call that may raise is a  *)
(* record with an "err" field: "" when it returned, otherwise the          *)
(* exception (all exceptions raised by the store and the fee functions     *)
(* are ValueError; the message tells them apart).                          *)
(***************************************************************************)
EXTENDS Integers, Sequences, FiniteSets, TLC

VARIABLES
    store,      \* the WishSpellStore object: _spells, _counter, _spell_ids
    last,       \* the last store call: its name, argument and outcome
    listCalls,  \* history: number of list_spell calls made so far
    inserted,   \* history: ids returned by successful list_spell calls, in call order
    feeArgs,    \* (price_wei, fee_bps) handed to the fee functions
    feeRes,     \* outcome of compute_fee_wei(feeArgs)
    recvRes,    \* outcome of compute_seller_receives(feeArgs)
    addr,       \* the string handed to is_valid_address
    addrRes,    \* outcome of is_valid_address(addr)
    cliArgs,    \* the argparse namespace of one CLI invocation
    cliOut,     \* what the command did: exit status, stderr, fee lines, store
    cfgFile,    \* the config file on disk
    cfgRes      \* outcome of load_config

storeVars == <<store, last, listCalls, inserted>>
feeVars == <<feeArgs, feeRes, recvRes>>
addrVars == <<addr, addrRes>>
cliVars == <<cliArgs, cliOut>>
cfgVars == <<cfgFile, cfgRes>>
vars == <<store, last, listCalls, inserted, feeArgs, feeRes, recvRes,
          addr, addrRes, cliArgs, cliOut, cfgFile, cfgRes>>

---------------------------------------------------------------------------
(* Constants, main.py lines 21-33 *)

SPEL_BPS_BASE == 10000
SPEL_MAX_FEE_BPS == 350
SPEL_MAX_SPELLS == 128
ADDR_HEX_LEN == 40
DEFAULT_FEE_BPS == 12
DEFAULT_CHAIN_ID == 1
SIM_BLOCK == 1000

(* Bounds of the model *)

\* list_spell is called at most SPEL_MAX_SPELLS + ExtraListCalls times
ExtraListCalls == 3
\* delist is tried on the valid ids 1..MaxTouched (and on unassigned ids)
MaxTouched == 2
\* the first MaxVaried listings draw their price from StorePrices
MaxVaried == 1
\* the fee functions are applied to every price in -3..MaxSmallPrice
MaxSmallPrice == 40

ERR_MAX_SPELLS == "ValueError: Max spells reached"
ERR_NOT_FOUND == "ValueError: Spell not found"
ERR_FEE_BPS == "ValueError: fee_bps must be <= 350"

---------------------------------------------------------------------------
(* Fee and price calculations *)

\* a wrong limit in the guard (the basis-point base instead of the maximum fee)
compute_fee_wei_wrongLimit(price_wei, fee_bps) ==
    IF fee_bps > SPEL_BPS_BASE
    THEN [err |-> ERR_FEE_BPS, val |-> 0]
    ELSE [err |-> "", val |-> (price_wei * fee_bps) \div SPEL_BPS_BASE]

\* rounding to nearest instead of down
compute_fee_wei_rounded(price_wei, fee_bps) ==
    IF fee_bps > SPEL_MAX_FEE_BPS
    THEN [err |-> ERR_FEE_BPS, val |-> 0]
    ELSE [err |-> "", val |-> (price_wei * fee_bps + SPEL_BPS_BASE \div 2) \div SPEL_BPS_BASE]

\* Python's // on integers is floor division, as is \div for a positive divisor
compute_fee_wei(price_wei, fee_bps) ==
    IF fee_bps > SPEL_MAX_FEE_BPS
    THEN [err |-> ERR_FEE_BPS, val |-> 0]
    ELSE [err |-> "", val |-> (price_wei * fee_bps) \div SPEL_BPS_BASE]

\* the seller's share computed by its own division instead of by subtraction
compute_seller_receives_ownDivision(price_wei, fee_bps) ==
    LET fee == compute_fee_wei(price_wei, fee_bps)
    IN  IF fee.err # "" THEN fee
        ELSE \* floor(price * (10000 - bps) / 10000), written as price minus the
             \* fee rounded up so that the product stays small
             [err |-> "",
              val |-> price_wei
                      - (price_wei * fee_bps + SPEL_BPS_BASE - 1) \div SPEL_BPS_BASE]

compute_seller_receives(price_wei, fee_bps) ==
    LET fee == compute_fee_wei(price_wei, fee_bps)
    IN  IF fee.err # "" THEN fee
        ELSE [err |-> "", val |-> price_wei - fee.val]

---------------------------------------------------------------------------
(* In-memory spell store *)

SpellEntry(spell_id, seller, title_hash, category_hash, price_wei, block) ==
    [spell_id |-> spell_id, seller |-> seller, title_hash |-> title_hash,
     category_hash |-> category_hash, price_wei |-> price_wei,
     listed_at_block |-> block, listed |-> TRUE]

\* WishSpellStore.__init__: _spells is a dict, here a function on its key set
NewStore == [spells |-> <<>>, counter |-> 0, spell_ids |-> <<>>]

NoEntry == [spell_id |-> 0]

StoreResult(st, err, id, ids, entry) ==
    [store |-> st, err |-> err, id |-> id, ids |-> ids, entry |-> entry]

\* the cap applied to the number of active listings instead of all inserts
list_spell_capOnActive(st, seller, title_hash, category_hash, price_wei, block) ==
    IF Cardinality({i \in DOMAIN st.spells : st.spells[i].listed}) >= SPEL_MAX_SPELLS
    THEN StoreResult(st, ERR_MAX_SPELLS, 0, <<>>, NoEntry)
    ELSE LET spell_id == st.counter + 1
             e == SpellEntry(spell_id, seller, title_hash, category_hash, price_wei, block)
         IN  StoreResult(
                 [spells |-> [i \in DOMAIN st.spells \cup {spell_id} |->
                                 IF i = spell_id THEN e ELSE st.spells[i]],
                  counter |-> spell_id,
                  spell_ids |-> Append(st.spell_ids, spell_id)],
                 "", spell_id, <<>>, NoEntry)

\* the new id put at the front of _spell_ids instead of appended
list_spell_prepend(st, seller, title_hash, category_hash, price_wei, block) ==
    IF st.counter >= SPEL_MAX_SPELLS
    THEN StoreResult(st, ERR_MAX_SPELLS, 0, <<>>, NoEntry)
    ELSE LET spell_id == st.counter + 1
             e == SpellEntry(spell_id, seller, title_hash, category_hash, price_wei, block)
         IN  StoreResult(
                 [spells |-> [i \in DOMAIN st.spells \cup {spell_id} |->
                                 IF i = spell_id THEN e ELSE st.spells[i]],
                  counter |-> spell_id,
                  spell_ids |-> <<spell_id>> \o st.spell_ids],
                 "", spell_id, <<>>, NoEntry)

list_spell(st, seller, title_hash, category_hash, price_wei, block) ==
    IF st.counter >= SPEL_MAX_SPELLS
    THEN StoreResult(st, ERR_MAX_SPELLS, 0, <<>>, NoEntry)
    ELSE LET spell_id == st.counter + 1
             e == SpellEntry(spell_id, seller, title_hash, category_hash, price_wei, block)
         IN  StoreResult(
                 [spells |-> [i \in DOMAIN st.spells \cup {spell_id} |->
                                 IF i = spell_id THEN e ELSE st.spells[i]],
                  counter |-> spell_id,
                  spell_ids |-> Append(st.spell_ids, spell_id)],
                 "", spell_id, <<>>, NoEntry)

\* the flag toggled instead of cleared
delist_toggle(st, spell_id) ==
    IF spell_id \notin DOMAIN st.spells
    THEN StoreResult(st, ERR_NOT_FOUND, 0, <<>>, NoEntry)
    ELSE StoreResult(
             [st EXCEPT !.spells[spell_id].listed = ~st.spells[spell_id].listed],
             "", 0, <<>>, NoEntry)

\* an unknown id ignored instead of reported
delist_silent(st, spell_id) ==
    IF spell_id \notin DOMAIN st.spells
    THEN StoreResult(st, "", 0, <<>>, NoEntry)
    ELSE StoreResult([st EXCEPT !.spells[spell_id].listed = FALSE],
                     "", 0, <<>>, NoEntry)

delist(st, spell_id) ==
    IF spell_id \notin DOMAIN st.spells
    THEN StoreResult(st, ERR_NOT_FOUND, 0, <<>>, NoEntry)
    ELSE StoreResult([st EXCEPT !.spells[spell_id].listed = FALSE],
                     "", 0, <<>>, NoEntry)

get_spell(st, spell_id) ==
    IF spell_id \notin DOMAIN st.spells
    THEN StoreResult(st, ERR_NOT_FOUND, 0, <<>>, NoEntry)
    ELSE StoreResult(st, "", 0, <<>>, st.spells[spell_id])

get_listed_ids(st) ==
    LET IsListed(s) == st.spells[s].listed
    IN  StoreResult(st, "", 0, SelectSeq(st.spell_ids, IsListed), NoEntry)

get_spell_ids(st) == StoreResult(st, "", 0, st.spell_ids, NoEntry)

---------------------------------------------------------------------------
(* Idle values of the variables a specification does not use *)

NoCall == [op |-> "none", arg |-> 0, err |-> "", id |-> 0, ids |-> <<>>, entry |-> NoEntry]
NotComputed == [err |-> "not called", val |-> 0]

StoreIdle ==
    /\ store = NewStore /\ last = NoCall /\ listCalls = 0 /\ inserted = <<>>
FeeIdle ==
    /\ feeArgs = <<0, 0>> /\ feeRes = NotComputed /\ recvRes = NotComputed
AddrIdle ==
    /\ addr = <<>> /\ addrRes = "not called"
CliIdle ==
    /\ cliArgs = <<>> /\ cliOut = <<>>
CfgIdle ==
    /\ cfgFile = <<>> /\ cfgRes = <<>>

---------------------------------------------------------------------------
(* The store driven by an arbitrary caller *)

SELLER == "0xAAAA"
StorePrices == {0, 500}

\* prices offered to the listing made when c listings exist
PricesAt(c) == IF c < MaxVaried THEN StorePrices ELSE {500}

\* ids tried by delist: never assigned ones (negative, 0, one past the counter,
\* one past the cap) and the first MaxTouched ids
DelistArgs(st) ==
    {-1, 0} \cup (1..MaxTouched) \cup {st.counter + 1, SPEL_MAX_SPELLS + 1}

GetSpellArgs(st) == DelistArgs(st) \cup {st.counter}

Observed(op, arg, r) ==
    [op |-> op, arg |-> arg, err |-> r.err, id |-> r.id, ids |-> r.ids, entry |-> r.entry]

StoreInit == StoreIdle

ListSpell ==
    /\ listCalls < SPEL_MAX_SPELLS + ExtraListCalls
    /\ \E price \in PricesAt(store.counter) :
         LET r == list_spell(store, SELLER, "title#", "category#", price, 0)
         IN  /\ store' = r.store
             /\ last' = Observed("list_spell", price, r)
             /\ inserted' = IF r.err = "" THEN Append(inserted, r.id) ELSE inserted
    /\ listCalls' = listCalls + 1

Delist ==
    /\ \E spell_id \in DelistArgs(store) :
         LET r == delist(store, spell_id)
         IN  /\ store' = r.store
             /\ last' = Observed("delist", spell_id, r)
    /\ UNCHANGED <<listCalls, inserted>>

GetSpell ==
    /\ \E spell_id \in GetSpellArgs(store) :
         LET r == get_spell(store, spell_id)
         IN  /\ store' = r.store
             /\ last' = Observed("get_spell", spell_id, r)
    /\ UNCHANGED <<listCalls, inserted>>

GetListedIds ==
    /\ LET r == get_listed_ids(store)
       IN  /\ store' = r.store
           /\ last' = Observed("get_listed_ids", 0, r)
    /\ UNCHANGED <<listCalls, inserted>>

GetSpellIds ==
    /\ LET r == get_spell_ids(store)
       IN  /\ store' = r.store
           /\ last' = Observed("get_spell_ids", 0, r)
    /\ UNCHANGED <<listCalls, inserted>>

Init == StoreInit /\ FeeIdle /\ AddrIdle /\ CliIdle /\ CfgIdle

Next ==
    \/ ListSpell /\ UNCHANGED <<feeVars, addrVars, cliVars, cfgVars>>
    \/ Delist /\ UNCHANGED <<feeVars, addrVars, cliVars, cfgVars>>
    \/ GetSpell /\ UNCHANGED <<feeVars, addrVars, cliVars, cfgVars>>
    \/ GetListedIds /\ UNCHANGED <<feeVars, addrVars, cliVars, cfgVars>>
    \/ GetSpellIds /\ UNCHANGED <<feeVars, addrVars, cliVars, cfgVars>>

Spec == Init /\ [][Next]_vars

---------------------------------------------------------------------------
(* Claims about the store *)

Min(a, b) == IF a < b THEN a ELSE b
Elems(s) == {s[k] : k \in DOMAIN s}

\* C4: the k-th list_spell call returns id k for k = 1..128 and every later call
\* fails with the capacity error, whatever was delisted in between; ids start at
\* 1, grow by one and are never reused.
C4_SequentialIdsCumulativeCap ==
    /\ store.counter = Min(listCalls, SPEL_MAX_SPELLS)
    /\ inserted = [k \in 1..Min(listCalls, SPEL_MAX_SPELLS) |-> k]
    /\ DOMAIN store.spells = 1..store.counter
    /\ \A i \in DOMAIN store.spells : store.spells[i].spell_id = i
    /\ last.op = "list_spell" =>
         IF listCalls <= SPEL_MAX_SPELLS
         THEN last.err = "" /\ last.id = listCalls
         ELSE last.err = ERR_MAX_SPELLS

\* the 129th list_spell call has failed although a listing had been delisted
C4_Witness ==
    /\ last.op = "list_spell" /\ last.err = ERR_MAX_SPELLS
    /\ listCalls = SPEL_MAX_SPELLS + 1
    /\ store.counter = SPEL_MAX_SPELLS
    /\ \E i \in DOMAIN store.spells : ~store.spells[i].listed

\* C5: a record is Active right after the list_spell that created it, and a
\* Delisted record stays Delisted (and stays in the store) under every later call.
C5_DelistedIsTerminal ==
    [][ /\ \A i \in DOMAIN store.spells :
              /\ i \in DOMAIN store'.spells
              /\ ~store.spells[i].listed => ~store'.spells[i].listed
        /\ \A i \in DOMAIN store'.spells \ DOMAIN store.spells :
              store'.spells[i].listed
        /\ (last'.op = "list_spell" /\ last'.err = "") =>
              /\ last'.id \in DOMAIN store'.spells \ DOMAIN store.spells
              /\ store'.spells[last'.id].listed
        /\ (last'.op = "delist" /\ last'.err = "") =>
              ~store'.spells[last'.arg].listed
      ]_vars

\* a delist has just succeeded on a record while another, delisted earlier, is
\* still delisted and a record created later is active
C5_Witness ==
    /\ last.op = "delist" /\ last.err = "" /\ last.arg = 2
    /\ store.counter >= 3
    /\ ~store.spells[1].listed /\ ~store.spells[2].listed
    /\ store.spells[3].listed

\* C6: get_spell_ids is the ids ever inserted, once each, in insertion order;
\* get_listed_ids is the Active ones among them in the same order; a delisted id
\* is absent from the latter and present in the former.
C6_IdListings ==
    LET IsActive(i) == store.spells[i].listed
        all == get_spell_ids(store)
        act == get_listed_ids(store)
    IN  /\ all.err = "" /\ all.ids = inserted
        /\ act.err = "" /\ act.ids = SelectSeq(inserted, IsActive)
        /\ Elems(act.ids) = {i \in DOMAIN store.spells : store.spells[i].listed}
        /\ \A i \in DOMAIN store.spells :
              ~store.spells[i].listed => i \in Elems(all.ids) \ Elems(act.ids)
        /\ last.op = "get_spell_ids" => last.err = "" /\ last.ids = inserted
        /\ last.op = "get_listed_ids" =>
              last.err = "" /\ last.ids = SelectSeq(inserted, IsActive)

\* get_listed_ids has returned <<2, 3>> after id 1 was delisted
C6_Witness ==
    /\ last.op = "get_listed_ids" /\ last.ids = <<2, 3>>
    /\ inserted = <<1, 2, 3>>
    /\ ~store.spells[1].listed

\* C7: delist and get_spell on a never-assigned id fail with the not-found error
\* and leave the store unchanged; get_spell on an assigned id returns its record.
C7_UnknownIdNotFound ==
    [][ /\ (last'.op \in {"delist", "get_spell"} /\ last'.arg \notin Elems(inserted)) =>
              /\ last'.err = ERR_NOT_FOUND
              /\ store' = store
        /\ (last'.op = "get_spell" /\ last'.arg \in Elems(inserted)) =>
              /\ last'.err = ""
              /\ last'.entry = store.spells[last'.arg]
              /\ last'.entry.spell_id = last'.arg
              /\ store' = store
      ]_vars

\* delist of the id one past the counter has failed on a store holding listings
C7_Witness ==
    /\ last.op = "delist" /\ last.err = ERR_NOT_FOUND
    /\ store.counter >= 2 /\ last.arg = store.counter + 1

---------------------------------------------------------------------------
(* The fee functions applied to bounded inputs *)

\* prices: every small one (the negatives included), the places where the
\* division rounds, the spec's scenario
FeePrices == (-3..MaxSmallPrice) \cup {832, 833, 834, 9999, 10000, 10001, 1000000}

\* rates: every one from -1 to two past the platform maximum
FeeRates == -1..(SPEL_MAX_FEE_BPS + 2)

FeeInit ==
    /\ feeArgs \in FeePrices \X FeeRates
    /\ feeRes = NotComputed
    /\ recvRes = NotComputed

ComputeFee ==
    /\ feeRes = NotComputed
    /\ feeRes' = compute_fee_wei(feeArgs[1], feeArgs[2])
    /\ UNCHANGED <<feeArgs, recvRes>>

ComputeSellerReceives ==
    /\ recvRes = NotComputed
    /\ recvRes' = compute_seller_receives(feeArgs[1], feeArgs[2])
    /\ UNCHANGED <<feeArgs, feeRes>>

InitFee == FeeInit /\ StoreIdle /\ AddrIdle /\ CliIdle /\ CfgIdle

NextFee ==
    \/ ComputeFee /\ UNCHANGED <<storeVars, addrVars, cliVars, cfgVars>>
    \/ ComputeSellerReceives /\ UNCHANGED <<storeVars, addrVars, cliVars, cfgVars>>

SpecFee == InitFee /\ [][NextFee]_vars

ValidFeeArgs == feeArgs[1] >= 0 /\ feeArgs[2] >= 0 /\ feeArgs[2] <= SPEL_MAX_FEE_BPS

\* C1: for p >= 0 and 0 <= b <= 350 both functions return and
\* compute_fee_wei(p, b) + compute_seller_receives(p, b) = p.
C1_FeeSplitExact ==
    ValidFeeArgs =>
        /\ feeRes # NotComputed => feeRes.err = ""
        /\ recvRes # NotComputed => recvRes.err = ""
        /\ (feeRes # NotComputed /\ recvRes # NotComputed) =>
               feeRes.val + recvRes.val = feeArgs[1]

\* both functions have been applied to a price and rate whose fee is rounded down
C1_Witness ==
    /\ feeArgs = <<833, 350>>
    /\ feeRes = [err |-> "", val |-> 29]
    /\ recvRes = [err |-> "", val |-> 804]

\* C2: for p >= 0 and 0 <= b <= 350, compute_fee_wei(p, b) is floor(p*b/10000):
\* the one integer q with q*10000 <= p*b < (q+1)*10000; b = 0 gives 0, p = 0
\* gives fee 0 and seller-receives 0, (1000000, 12) gives 1200 and 998800.
C2_FeeIsFloor ==
    LET p == feeArgs[1]
        b == feeArgs[2]
    IN  /\ (ValidFeeArgs /\ feeRes # NotComputed) =>
              /\ feeRes.err = ""
              /\ feeRes.val * SPEL_BPS_BASE <= p * b
              /\ p * b < (feeRes.val + 1) * SPEL_BPS_BASE
              /\ (b = 0 \/ p = 0) => feeRes.val = 0
              /\ (p = 1000000 /\ b = 12) => feeRes.val = 1200
        /\ (ValidFeeArgs /\ recvRes # NotComputed) =>
              /\ p = 0 => recvRes = [err |-> "", val |-> 0]
              /\ (p = 1000000 /\ b = 12) => recvRes = [err |-> "", val |-> 998800]

\* the spec's scenario has been computed
C2_Witness ==
    /\ feeArgs = <<1000000, 12>>
    /\ feeRes = [err |-> "", val |-> 1200]
    /\ recvRes = [err |-> "", val |-> 998800]

\* C3: with b > 350 both functions raise the fee_bps ValueError, for any price
\* (0 and negative ones included), and return no value.
C3_FeeAboveMaxFails ==
    feeArgs[2] > SPEL_MAX_FEE_BPS =>
        /\ feeRes # NotComputed => feeRes = [err |-> ERR_FEE_BPS, val |-> 0]
        /\ recvRes # NotComputed => recvRes = [err |-> ERR_FEE_BPS, val |-> 0]

\* both functions have failed on a negative price with rate 351
C3_Witness ==
    /\ feeArgs = <<-3, SPEL_MAX_FEE_BPS + 1>>
    /\ feeRes.err = ERR_FEE_BPS
    /\ recvRes.err = ERR_FEE_BPS

---------------------------------------------------------------------------
(* Strings: sequences of one-character strings *)

\* the ASCII whitespace str.strip() removes (it also removes \v, \f and the
\* Unicode spaces, which the inputs below do not use)
IsSpace(c) == c \in {" ", "\t", "\n", "\r"}

RECURSIVE lstrip(_)
lstrip(s) == IF s # <<>> /\ IsSpace(Head(s)) THEN lstrip(Tail(s)) ELSE s

RECURSIVE rstrip(_)
rstrip(s) ==
    IF s # <<>> /\ IsSpace(s[Len(s)]) THEN rstrip(SubSeq(s, 1, Len(s) - 1)) ELSE s

strip(s) == rstrip(lstrip(s))

startswith(s, prefix) ==
    Len(s) >= Len(prefix) /\ SubSeq(s, 1, Len(prefix)) = prefix

HEX_PREFIX == <<"0", "x">>

HexChars == {"0", "1", "2", "3", "4", "5", "6", "7", "8", "9",
             "a", "b", "c", "d", "e", "f", "A", "B", "C", "D", "E", "F"}

---------------------------------------------------------------------------
(* Validate address *)

is_valid_address(a) ==
    IF a = <<>> \/ ~startswith(a, HEX_PREFIX)
    THEN FALSE
    ELSE LET raw == strip(SubSeq(a, 3, Len(a)))
         IN  Len(raw) = ADDR_HEX_LEN /\ \A i \in 1..Len(raw) : raw[i] \in HexChars

\* inputs: a lead, a run of n digits with at most one other character put in,
\* and a trail
AddrLeads == {<<>>, <<"0", "x">>, <<"0", "X">>, <<" ", "0", "x">>, <<"x">>}
AddrLens == {0, 3, ADDR_HEX_LEN - 1, ADDR_HEX_LEN, ADDR_HEX_LEN + 1}
AddrFill == {"0", "a", "F"}
AddrOdd == {"g", " ", "x"}
AddrTrails == {<<>>, <<" ">>, <<"\n">>, <<"0">>}

AddrBody(n, fill, odd, at) == [i \in 1..n |-> IF i = at THEN odd ELSE fill]

AddrInputs ==
    { lead \o AddrBody(n, fill, odd, at) \o trail :
        lead \in AddrLeads, n \in AddrLens, fill \in AddrFill,
        odd \in AddrOdd, at \in {0, 1, ADDR_HEX_LEN}, trail \in AddrTrails }

NotValidated == [called |-> FALSE, val |-> FALSE]

AddrInit == addr \in AddrInputs /\ addrRes = NotValidated

ValidateAddress ==
    /\ ~addrRes.called
    /\ addrRes' = [called |-> TRUE, val |-> is_valid_address(addr)]
    /\ UNCHANGED addr

InitAddr == AddrInit /\ StoreIdle /\ FeeIdle /\ CliIdle /\ CfgIdle

NextAddr == ValidateAddress /\ UNCHANGED <<storeVars, feeVars, cliVars, cfgVars>>

SpecAddr == InitAddr /\ [][NextAddr]_vars

\* "0x" followed by exactly 40 hexadecimal digits and nothing else
IsCanonicalAddress(s) ==
    /\ Len(s) = 2 + ADDR_HEX_LEN
    /\ s[1] = "0" /\ s[2] = "x"
    /\ \A i \in 3..Len(s) : s[i] \in HexChars

\* C8: is_valid_address(s) is true if and only if s is "0x" followed by exactly
\* 40 hexadecimal digits and nothing else; strings with leading or trailing
\* whitespace are invalid.
C8_ValidIffCanonical ==
    addrRes.called => (addrRes.val <=> IsCanonicalAddress(addr))

---------------------------------------------------------------------------
(* int(str) and str.split, as the commands use them *)

DigitChars == <<"0", "1", "2", "3", "4", "5", "6", "7", "8", "9">>
IsDigit(c) == \E d \in 1..10 : DigitChars[d] = c
DigitVal(c) == (CHOOSE d \in 1..10 : DigitChars[d] = c) - 1

RECURSIVE digits_value(_)
digits_value(s) ==
    IF s = <<>> THEN 0
    ELSE 10 * digits_value(SubSeq(s, 1, Len(s) - 1)) + DigitVal(s[Len(s)])

ERR_INT == "ValueError: invalid literal for int()"

\* int(s) for a str: surrounding whitespace dropped, an optional sign, then one
\* or more decimal digits; anything else raises ValueError.  (Underscores
\* between digits, which int() also accepts, are not among the inputs.)
int_of_str(s) ==
    LET t == strip(s)
        signed == t # <<>> /\ t[1] \in {"+", "-"}
        digits == IF signed THEN Tail(t) ELSE t
    IN  IF digits = <<>> \/ \E i \in 1..Len(digits) : ~IsDigit(digits[i])
        THEN [err |-> ERR_INT, val |-> 0]
        ELSE [err |-> "",
              val |-> IF signed /\ t[1] = "-"
                      THEN 0 - digits_value(digits) ELSE digits_value(digits)]

RECURSIVE split(_, _)
split(s, sep) ==
    IF \A i \in 1..Len(s) : s[i] # sep
    THEN <<s>>
    ELSE LET i == CHOOSE j \in 1..Len(s) :
                      s[j] = sep /\ \A k \in 1..(j - 1) : s[k] # sep
         IN  <<SubSeq(s, 1, i - 1)>> \o split(SubSeq(s, i + 1, Len(s)), sep)

\* the digest of a string, kept abstract: a value determined by the string
title_hash_from_string(s) == [digest_of |-> s]
category_hash_from_string(s) == [digest_of |-> s]

ZERO_ADDRESS == "0x0000000000000000000000000000000000000000"
BUY_DEFAULT_SELLER == "0x1111111111111111111111111111111111111111"

---------------------------------------------------------------------------
(* CLI commands that take a price *)

\* what one command did: its exit status, the exception that left it (the
\* interpreter then ends with status 1), its stderr line, the fee lines it
\* printed, its totals, and the store it built
CliResult(cmd, exit, raised, stderr, splits, st) ==
    [cmd |-> cmd, exit |-> exit, raised |-> raised, stderr |-> stderr,
     splits |-> splits, store |-> st]

CliRaised(cmd, exc, st) == CliResult(cmd, 1, exc, "", <<>>, st)

\* fee_bps = int(args.fee_bps) if args.fee_bps else 12
fee_bps_or_default(arg) ==
    IF arg # <<>> THEN int_of_str(arg) ELSE [err |-> "", val |-> DEFAULT_FEE_BPS]

cmd_fee(args) ==
    LET price == int_of_str(args.price)
        fee_bps == fee_bps_or_default(args.fee_bps)
    IN  IF price.err # "" THEN CliRaised("fee", price.err, NewStore)
        ELSE IF fee_bps.err # "" THEN CliRaised("fee", fee_bps.err, NewStore)
        ELSE IF price.val < 0 \/ fee_bps.val < 0 \/ fee_bps.val > SPEL_MAX_FEE_BPS
        THEN CliResult("fee", 1, "", "Invalid price or fee_bps (0-350)", <<>>, NewStore)
        ELSE LET fee == compute_fee_wei(price.val, fee_bps.val)
                 to_seller == compute_seller_receives(price.val, fee_bps.val)
             IN  CliResult("fee", 0, "", "",
                           <<[price |-> price.val, fee |-> fee.val,
                              to_seller |-> to_seller.val]>>, NewStore)

\* the loop of cmd_batch_fee over the parsed prices: negative ones are skipped
RECURSIVE batch_lines(_, _)
batch_lines(prices, fee_bps) ==
    IF prices = <<>> THEN <<>>
    ELSE LET p == Head(prices)
             rest == batch_lines(Tail(prices), fee_bps)
         IN  IF p < 0 THEN rest
             ELSE <<[price |-> p, fee |-> compute_fee_wei(p, fee_bps).val,
                     to_seller |-> compute_seller_receives(p, fee_bps).val]>> \o rest

cmd_batch_fee(args) ==
    LET parts == split(args.prices, ",")
        parsed == [i \in 1..Len(parts) |-> int_of_str(parts[i])]
        fee_bps == fee_bps_or_default(args.fee_bps)
    IN  IF \E i \in 1..Len(parsed) : parsed[i].err # ""
        THEN CliRaised("batch-fee", ERR_INT, NewStore)
        ELSE IF fee_bps.err # "" THEN CliRaised("batch-fee", fee_bps.err, NewStore)
        ELSE IF fee_bps.val < 0 \/ fee_bps.val > SPEL_MAX_FEE_BPS
        THEN CliResult("batch-fee", 1, "", "Invalid fee_bps", <<>>, NewStore)
        ELSE CliResult("batch-fee", 0, "", "",
                       batch_lines([i \in 1..Len(parsed) |-> parsed[i].val], fee_bps.val),
                       NewStore)

cmd_simulate_list(args) ==
    LET price == int_of_str(args.price)
        seller == IF args.seller # "" THEN args.seller ELSE ZERO_ADDRESS
    IN  IF price.err # "" THEN CliRaised("simulate-list", price.err, NewStore)
        ELSE IF price.val <= 0
        THEN CliResult("simulate-list", 1, "", "Price must be positive", <<>>, NewStore)
        ELSE LET r == list_spell(NewStore, seller, title_hash_from_string(args.title),
                                 category_hash_from_string(args.category),
                                 price.val, SIM_BLOCK)
             IN  IF r.err # "" THEN CliRaised("simulate-list", r.err, r.store)
                 ELSE CliResult("simulate-list", 0, "", "", <<>>, r.store)

cmd_simulate_buy(args) ==
    LET seller == IF args.seller # "" THEN args.seller ELSE BUY_DEFAULT_SELLER
        price == int_of_str(args.price)
    IN  IF price.err # "" THEN CliRaised("simulate-buy", price.err, NewStore)
        ELSE
        LET listed == list_spell(NewStore, seller, title_hash_from_string(args.title),
                                 category_hash_from_string(args.category),
                                 price.val, SIM_BLOCK)
        IN  IF listed.err # "" THEN CliRaised("simulate-buy", listed.err, listed.store)
            ELSE
            LET gone == delist(listed.store, listed.id)
                fee_bps == fee_bps_or_default(args.fee_bps)
            IN  IF gone.err # "" THEN CliRaised("simulate-buy", gone.err, gone.store)
                ELSE IF fee_bps.err # ""
                THEN CliRaised("simulate-buy", fee_bps.err, gone.store)
                ELSE
                LET fee == compute_fee_wei(price.val, fee_bps.val)
                IN  IF fee.err # "" THEN CliRaised("simulate-buy", fee.err, gone.store)
                    ELSE CliResult("simulate-buy", 0, "", "",
                                   <<[price |-> price.val, fee |-> fee.val,
                                      to_seller |-> price.val - fee.val]>>,
                                   gone.store)

\* the arguments a user may give
PriceArgs ==
    { <<"-", "5">>, <<"0">>, <<"5", "0", "0">>,
      <<"1", "0", "0", "0", "0", "0", "0">>, <<"a", "b", "c">>, <<" ", "7", " ">> }
PricesArgs ==
    { <<"1", "0", "0", ",", "-", "5", ",", "2", "0", "0">>, <<"-", "5">>,
      <<"1", "0", "0", "0", "0", "0", "0">>, <<"0", ",", "8", "3", "3">>,
      <<"1", ",", ",", "2">>, <<>> }
FeeBpsArgs ==
    { <<>>, <<"1", "2">>, <<"0">>, <<"3", "5", "0">>, <<"3", "5", "1">>,
      <<"-", "1">>, <<"x">> }
SellerArgs == {"", "0xAAAA"}

NotRun == CliResult("none", 0, "", "", <<>>, NewStore)

CliInit ==
    /\ cliArgs \in [price : PriceArgs, prices : PricesArgs, fee_bps : FeeBpsArgs,
                    seller : SellerArgs, title : {"Fireball"}, category : {"Attack"}]
    /\ cliOut = NotRun

CmdFee ==
    cliOut = NotRun /\ cliOut' = cmd_fee(cliArgs) /\ UNCHANGED cliArgs

CmdBatchFee ==
    cliOut = NotRun /\ cliOut' = cmd_batch_fee(cliArgs) /\ UNCHANGED cliArgs

CmdSimulateList ==
    cliOut = NotRun /\ cliOut' = cmd_simulate_list(cliArgs) /\ UNCHANGED cliArgs

CmdSimulateBuy ==
    cliOut = NotRun /\ cliOut' = cmd_simulate_buy(cliArgs) /\ UNCHANGED cliArgs

InitCli == CliInit /\ StoreIdle /\ FeeIdle /\ AddrIdle /\ CfgIdle

NextCli ==
    \/ CmdFee /\ UNCHANGED <<storeVars, feeVars, addrVars, cfgVars>>
    \/ CmdBatchFee /\ UNCHANGED <<storeVars, feeVars, addrVars, cfgVars>>
    \/ CmdSimulateList /\ UNCHANGED <<storeVars, feeVars, addrVars, cfgVars>>
    \/ CmdSimulateBuy /\ UNCHANGED <<storeVars, feeVars, addrVars, cfgVars>>

SpecCli == InitCli /\ [][NextCli]_vars

\* the command that ran was given a negative price
NegativePriceGiven ==
    IF cliOut.cmd = "batch-fee"
    THEN LET parts == split(cliArgs.prices, ",")
         IN  \E i \in 1..Len(parts) :
                 int_of_str(parts[i]).err = "" /\ int_of_str(parts[i]).val < 0
    ELSE int_of_str(cliArgs.price).err = "" /\ int_of_str(cliArgs.price).val < 0

\* C9: fee, batch-fee, simulate-list and simulate-buy given a negative price
\* report an error with a non-zero exit status, print no fee split for it and
\* create no listing with it.
C9_NegativePriceRejected ==
    (cliOut.cmd # "none" /\ NegativePriceGiven) =>
        /\ cliOut.exit # 0
        /\ cliOut.stderr # "" \/ cliOut.raised # ""
        /\ \A i \in 1..Len(cliOut.splits) : cliOut.splits[i].price >= 0
        /\ \A i \in DOMAIN cliOut.store.spells : cliOut.store.spells[i].price_wei >= 0

---------------------------------------------------------------------------
(* Config *)

\* JSON values as json.load returns them
JStr(chars) == [t |-> "str", v |-> chars]
JInt(n) == [t |-> "int", v |-> n]
JNull == [t |-> "null", v |-> 0]
JList == [t |-> "list", v |-> 0]
JDict(d) == [t |-> "dict", v |-> d]

\* WishConfig(): the dataclass defaults
WishConfig ==
    [contract_address |-> JStr(<<>>), rpc_url |-> JStr(<<>>),
     chain_id |-> JInt(DEFAULT_CHAIN_ID), fee_bps |-> JInt(DEFAULT_FEE_BPS)]

\* dict.get(key, default)
dict_get(d, key, default) == IF key \in DOMAIN d THEN d[key] ELSE default

\* int(x) for a JSON value: an int as it is, a str parsed, None or a list a TypeError
int_of_json(x) ==
    CASE x.t = "int" -> [err |-> "", val |-> x.v]
      [] x.t = "str" -> int_of_str(x.v)
      [] OTHER -> [err |-> "TypeError: int() argument", val |-> 0]

\* the fields are assigned one after the other inside the try; the first
\* exception ends the block and is swallowed, what was assigned before it stays
load_config(file) ==
    LET cfg == WishConfig
    IN  IF ~file.isfile THEN cfg
        ELSE IF ~file.parses THEN cfg
        ELSE IF file.data.t # "dict" THEN cfg
        ELSE
        LET data == file.data.v
            cfg1 == [cfg EXCEPT !.contract_address =
                         dict_get(data, "contractAddress", JStr(<<>>))]
            cfg2 == [cfg1 EXCEPT !.rpc_url = dict_get(data, "rpcUrl", JStr(<<>>))]
            chain == int_of_json(dict_get(data, "chainId", JInt(DEFAULT_CHAIN_ID)))
            fee == int_of_json(dict_get(data, "feeBps", JInt(DEFAULT_FEE_BPS)))
        IN  IF chain.err # "" THEN cfg2
            ELSE LET cfg3 == [cfg2 EXCEPT !.chain_id = JInt(chain.val)]
                 IN  IF fee.err # "" THEN cfg3
                     ELSE [cfg3 EXCEPT !.fee_bps = JInt(fee.val)]

\* config files: none, one that is not JSON, a JSON list, and JSON objects in
\* which each field is absent or takes one of a few values
Absent == [t |-> "absent", v |-> 0]
AddressValues == {Absent, JStr(<<"0", "x", "a", "b", "c">>)}
UrlValues == {Absent, JStr(<<"h", "t", "t", "p">>)}
ChainValues == {Absent, JInt(5), JStr(<<"1", "3", "7">>), JStr(<<"a", "b", "c">>), JNull}
FeeValues == {Absent, JInt(30), JStr(<<"x">>), JNull}

ConfigDict(ca, ru, ci, fb) ==
    LET given == [contractAddress |-> ca, rpcUrl |-> ru, chainId |-> ci, feeBps |-> fb]
    IN  [k \in {f \in DOMAIN given : given[f] # Absent} |-> given[k]]

ConfigFiles ==
    {[isfile |-> FALSE, parses |-> FALSE, data |-> JNull],
     [isfile |-> TRUE, parses |-> FALSE, data |-> JNull],
     [isfile |-> TRUE, parses |-> TRUE, data |-> JList]}
    \cup
    {[isfile |-> TRUE, parses |-> TRUE, data |-> JDict(ConfigDict(ca, ru, ci, fb))] :
        ca \in AddressValues, ru \in UrlValues, ci \in ChainValues, fb \in FeeValues}

NotLoaded == [called |-> FALSE, err |-> "", cfg |-> WishConfig]

CfgInit == cfgFile \in ConfigFiles /\ cfgRes = NotLoaded

LoadConfig ==
    /\ ~cfgRes.called
    /\ cfgRes' = [called |-> TRUE, err |-> "", cfg |-> load_config(cfgFile)]
    /\ UNCHANGED cfgFile

InitConfig == CfgInit /\ StoreIdle /\ FeeIdle /\ AddrIdle /\ CliIdle

NextConfig == LoadConfig /\ UNCHANGED <<storeVars, feeVars, addrVars, cliVars>>

SpecConfig == InitConfig /\ [][NextConfig]_vars

\* the file is missing, is not JSON, is not a JSON object, or gives chainId or
\* feeBps a value int() rejects
Malformed(file) ==
    \/ ~file.isfile
    \/ ~file.parses
    \/ file.data.t # "dict"
    \/ \E k \in {"chainId", "feeBps"} \cap DOMAIN file.data.v :
           int_of_json(file.data.v[k]).err # ""

\* C10: load_config never fails, and for a missing or malformed file it returns
\* the defaults in all four fields: "", "", 1, 12.
C10_MalformedYieldsDefaults ==
    cfgRes.called =>
        /\ cfgRes.err = ""
        /\ Malformed(cfgFile) => cfgRes.cfg = WishConfig

=============================================================================
